---- MODULE Spec2Model ----
(***************************************************************************)
(* Model of src/upload.py: the publish pipeline of the TikTok uploader.    *)
(*                                                                         *)
(*   module level   the environment is read, OPENAI_API_KEY is required    *)
(*   main()         file set, one access token, the batch, the summary     *)
(*   broker         get_tiktok_access_token: PKCE, redirect listener,      *)
(*                  wait loop, token exchange                              *)
(*   session        direct_post_video: caption, init, transfer, poll       *)
(*   pool           ThreadPoolExecutor(max_workers=4) + as_completed       *)
(*                                                                         *)
(* Python's None is the string None_; a Python string or None is truthy    *)
(* when it is neither None nor the empty string.  Every network call is a  *)
(* step whose response is chosen from the answers the provider may give.   *)
(***************************************************************************)
EXTENDS Integers, Sequences, FiniteSets, TLC

\* ------------------------------------------------------------ bounds ----
\* Largest number of .mp4 files a run of the whole program is given.
MaxVideos == 1
\* Largest number of files of a batch followed from the first submit on.
BatchVideos == 2
\* Number of files of the batches that fill the worker pool.
PoolVideos == 5
\* Status queries of one run that the provider answers with "still processing"
\* or with an error other than 404; every later query gets a final answer.
MaxWaits == 2
\* The same, for the batches that fill the worker pool.
PoolWaits == 1
\* Requests the redirect listener serves in one run.
MaxCallbacks == 2
\* Longest verifier asked of generate_code_verifier.
MaxLen == 2
\* Calls of generate_code_challenge on one verifier.
MaxCalls == 2

\* --------------------------------------------------- program constants ---
\* ThreadPoolExecutor(max_workers=4)
max_workers == 4

None_ == "None"
RATE_LIMIT == "RATE_LIMIT"
RATE_CODE == "spam_risk_too_many_pending_share"
PROCESSING_UPLOAD == "PROCESSING_UPLOAD"
COMPLETED == "COMPLETED"

\* Python truthiness of a str-or-None value.
Truthy(x) == x \notin {None_, ""}

\* ------------------------------------------------------ provider data ----
\* Upload URLs the provider hands out: with a scheme, and without one.
UrlWithScheme == "https://upload.example/v"
UrlBare == "upload.example/v"

\* upload_url.startswith("http")
StartsWithHttp(url) == url = UrlWithScheme

\* "https://" + upload_url
PrependHttps(url) == IF url = UrlBare THEN "https://upload.example/v" ELSE url

\* An init response: HTTP status, error.code of the JSON body (None_ when the
\* body has no "error" member), data.publish_id and data.upload_url.
InitResp(sc, ec, pid, url) ==
    [status_code |-> sc, error_code |-> ec, publish_id |-> pid, upload_url |-> url]

InitResponses ==
    { InitResp(200, None_, "p1", UrlWithScheme),
      InitResp(200, "ok", "p1", UrlBare),
      InitResp(200, RATE_CODE, None_, None_),
      InitResp(200, RATE_CODE, "p1", UrlWithScheme),
      InitResp(200, None_, "p1", None_),
      InitResp(200, "ok", None_, None_),
      InitResp(500, None_, None_, None_),
      InitResp(403, RATE_CODE, None_, None_) }

NoResp == InitResp(0, None_, None_, None_)

TransferStatuses == {200, 201, 500}

PollResp(sc, st) == [status_code |-> sc, status |-> st]

PollResponses ==
    { PollResp(200, PROCESSING_UPLOAD),
      PollResp(200, "PUBLISH_COMPLETE"),
      PollResp(200, "FAILED"),
      PollResp(404, None_),
      PollResp(500, None_) }

TokenResp(sc, tok) == [status_code |-> sc, access_token |-> tok]

TokenResponses == { TokenResp(200, "tok"), TokenResp(200, None_), TokenResp(400, None_) }

\* What a request to /callback may carry as its code parameter: absent (None_),
\* empty, or a code.
CallbackCodes == {None_, "", "c1", "c2"}

Verifiers == {"v1"}

\* ------------------------------------------------------ pure functions ---
\* string.ascii_letters and string.digits, by one lower-case letter, one
\* upper-case letter and one digit.
ascii_letters == {"a", "Z"}
digits == {"7"}

\* generate_code_verifier line 46.
allowed_Base64 == ascii_letters \cup digits \cup {"+", "/"}

allowed == ascii_letters \cup digits \cup {"-", ".", "_", "~"}

\* generate_code_verifier line 47: length characters, each a random.choice of
\* allowed; the strings the call can return.
generate_code_verifier(length) == [1..length -> allowed]

\* generate_code_challenge: the hex SHA-256 digest of the verifier.
generate_code_challenge(code_verifier) == <<"sha256hex", code_verifier>>

\* initialize_video_post, from the response on: the pair it returns.
initialize_video_post_IdsFirst(response) ==
    IF response.status_code = 200
    THEN IF Truthy(response.publish_id) /\ Truthy(response.upload_url)
         THEN <<response.publish_id,
                IF StartsWithHttp(response.upload_url)
                THEN response.upload_url
                ELSE PrependHttps(response.upload_url)>>
         ELSE IF response.error_code = RATE_CODE
              THEN <<RATE_LIMIT, None_>>
              ELSE <<None_, None_>>
    ELSE <<None_, None_>>

initialize_video_post(response) ==
    IF response.status_code = 200
    THEN IF response.error_code = RATE_CODE
         THEN <<RATE_LIMIT, None_>>
         ELSE IF Truthy(response.publish_id) /\ Truthy(response.upload_url)
              THEN <<response.publish_id,
                     IF StartsWithHttp(response.upload_url)
                     THEN response.upload_url
                     ELSE PrependHttps(response.upload_url)>>
              ELSE <<None_, None_>>
    ELSE <<None_, None_>>

\* direct_post_video line 217: "not init_result or init_result[0] == RATE_LIMIT".
\* init_result is always a pair, and a non-empty tuple is truthy.
InitStops(init_result) == Len(init_result) = 0 \/ init_result[1] = RATE_LIMIT

\* upload_video_file, from the response on.
TransferOk_AnyStatus(status_code) == TRUE

TransferOk(status_code) == status_code \in {200, 201}

\* exchange_code_for_token, from the response on.
exchange_code_for_token(response) ==
    IF response.status_code = 200
    THEN IF Truthy(response.access_token) THEN response.access_token ELSE None_
    ELSE None_

\* main lines 270-271: the two lists of the summary.
IsSuccess_AnyId(pub) == Truthy(pub)

IsSuccess(pub) == Truthy(pub) /\ pub # RATE_LIMIT
IsFailure(pub) == pub = None_ \/ pub = RATE_LIMIT

\* --------------------------------------------------------------- state ---
VARIABLES
    environ,           \* os.environ after load_dotenv(): which names are set
    world,             \* what the run meets: caption files, the provider's answers
    mainPc,            \* position of the main thread
    exitCode,          \* the process's exit code, -1 while it runs
    nfiles,            \* len(files); the videos are 1..nfiles, in list order
    auth_code_global,  \* the captured-code slot
    listener,          \* the Flask thread is serving /callback
    callbacks,         \* requests the listener has served
    broker,            \* locals of get_auth_code_default / get_tiktok_access_token
    pkce,              \* a call of the PKCE utility functions: argument and results
    access_token,      \* main's access_token
    submitted,         \* futures created by executor.submit so far
    fut,               \* per video: its future and the session that runs it
    waited,            \* status answers so far that did not end a poll loop
    acQueue,           \* as_completed: finished futures not yet yielded, in yield order
    results,           \* main's results list
    success,           \* main's success list
    failures           \* main's failures list

vars == <<environ, world, mainPc, exitCode, nfiles, auth_code_global, listener,
          callbacks, broker, pkce, access_token, submitted, fut, waited,
          acQueue, results, success, failures>>

authVars == <<auth_code_global, listener, callbacks, broker, pkce, access_token>>
batchVars == <<submitted, fut, waited, acQueue, results, success, failures>>

Videos == 1..nfiles

\* A future before its work item runs, with the session's locals unset.
NewSession ==
    [pc |-> "new",               \* new queued caption init transfer poll sleep done yielded
     caption |-> "unread",       \* unread | found | missing
     init |-> NoResp,            \* the init response received
     inits |-> 0,                \* init requests issued
     publish_id |-> None_,
     upload_url |-> None_,
     puts |-> 0,                 \* transfer requests issued
     put_status |-> 0,           \* status of the transfer response
     polls |-> <<>>,             \* status responses received, in order
     sleeps |-> 0,               \* time.sleep(5) calls made
     final_status |-> "unset",   \* what poll_video_status returned
     result |-> "unset",         \* the future's result
     raised |-> FALSE,           \* the future holds an exception instead
     finished_first |-> FALSE]   \* it finished before every other future; kept
                                 \* until main enters as_completed

NoBroker == [code_verifier |-> None_, url_challenge |-> <<>>, seen |-> "unset",
             code |-> "unset", sent_code |-> "unset", sent_verifier |-> "unset",
             exchanges |-> 0]

\* No call of the PKCE utility functions under way.
NoPkce == [pc |-> "idle", length |-> 0, code_verifier |-> <<>>, challenges |-> <<>>]

Running == {"caption", "init", "transfer", "poll", "sleep"}

InProgress == {v \in Videos : fut[v].pc \in Running}

\* The surroundings of a run: whether caption files exist, the answers the
\* provider's init, transfer and status endpoints may give, and how many
\* status queries it leaves without a final answer.
AnyWorld ==
    [captions |-> BOOLEAN, init |-> InitResponses, transfer |-> TransferStatuses,
     poll |-> PollResponses, waits |-> MaxWaits]

AllSet == [OPENAI_API_KEY |-> TRUE, TIKTOK_CLIENT_ID |-> TRUE, TIKTOK_CLIENT_SECRET |-> TRUE]

Init ==
    /\ environ \in {AllSet, [AllSet EXCEPT !.OPENAI_API_KEY = FALSE]}
    /\ world = AnyWorld
    /\ mainPc = "import"
    /\ exitCode = -1
    /\ nfiles = 0
    /\ auth_code_global = None_
    /\ listener = FALSE
    /\ callbacks = 0
    /\ broker = NoBroker
    /\ pkce = NoPkce
    /\ access_token = None_
    /\ submitted = 0
    /\ fut = <<>>
    /\ waited = 0
    /\ acQueue = <<>>
    /\ results = <<>>
    /\ success = <<>>
    /\ failures = <<>>

\* ------------------------------------------------------- module level ----
\* Lines 19-37: the environment is read; only OPENAI_API_KEY is required.
LoadModule ==
    /\ mainPc = "import"
    /\ IF ~environ.OPENAI_API_KEY
       THEN mainPc' = "exit" /\ exitCode' = 1
       ELSE mainPc' = "args" /\ exitCode' = exitCode
    /\ UNCHANGED <<environ, world, nfiles, authVars, batchVars>>

\* main lines 239-256: --file gives one path; --dir a directory that must
\* exist and whose .mp4 files are listed.
ParseArgs ==
    /\ mainPc = "args"
    /\ \E mode \in {"file", "dir", "notdir"} :
       \E n \in 0..MaxVideos :
          /\ mode = "file" => n = 1
          /\ mode = "notdir" => n = 0
          /\ nfiles' = n
          /\ fut' = [v \in 1..n |-> NewSession]
          /\ IF mode = "notdir"
             THEN mainPc' = "exit" /\ exitCode' = 1
             ELSE IF n = 0
                  THEN mainPc' = "exit" /\ exitCode' = 0
                  ELSE mainPc' = "auth" /\ exitCode' = exitCode
    /\ UNCHANGED <<environ, world, authVars, submitted, waited, acQueue, results,
                   success, failures>>

\* ------------------------------------------- redirect listener, broker ---
\* callback(): every request to /callback stores request.args.get("code").
Callback ==
    /\ listener
    /\ exitCode = -1
    /\ callbacks < MaxCallbacks
    /\ \E code \in CallbackCodes : auth_code_global' = code
    /\ callbacks' = callbacks + 1
    /\ UNCHANGED <<pkce, environ, world, mainPc, exitCode, nfiles, listener, broker,
                   access_token, batchVars>>

\* get_auth_code_default lines 71-78: the slot is cleared, the verifier is
\* drawn, the listener thread is started.
StartListener ==
    /\ mainPc = "auth"
    /\ auth_code_global' = None_
    /\ \E v \in Verifiers : broker' = [broker EXCEPT !.code_verifier = v]
    /\ listener' = TRUE
    /\ mainPc' = "open_browser"
    /\ UNCHANGED <<pkce, environ, world, exitCode, nfiles, callbacks, access_token,
                   batchVars>>

\* Lines 79-88: the authorization URL, with the challenge, is opened.
OpenBrowser_SendsVerifier ==
    /\ mainPc = "open_browser"
    /\ broker' = [broker EXCEPT !.url_challenge = <<"plain", broker.code_verifier>>]
    /\ mainPc' = "wait_code"
    /\ UNCHANGED <<pkce, environ, world, exitCode, nfiles, auth_code_global, listener,
                   callbacks, access_token, batchVars>>

OpenBrowser ==
    /\ mainPc = "open_browser"
    /\ broker' = [broker EXCEPT
                    !.url_challenge = generate_code_challenge(broker.code_verifier)]
    /\ mainPc' = "wait_code"
    /\ UNCHANGED <<pkce, environ, world, exitCode, nfiles, auth_code_global, listener,
                   callbacks, access_token, batchVars>>

\* Lines 89-90: the wait loop leaves when it reads a slot that is not None.
WaitForCode ==
    /\ mainPc = "wait_code"
    /\ auth_code_global # None_
    /\ broker' = [broker EXCEPT !.seen = auth_code_global]
    /\ mainPc' = "return_code"
    /\ UNCHANGED <<pkce, environ, world, exitCode, nfiles, auth_code_global, listener,
                   callbacks, access_token, batchVars>>

\* Line 91 reads the slot again for the value returned; lines 118-121: a
\* falsy code makes get_tiktok_access_token return None, and main (259-261)
\* exits with 1.
ReturnCode ==
    /\ mainPc = "return_code"
    /\ broker' = [broker EXCEPT !.code = auth_code_global]
    /\ IF ~Truthy(auth_code_global)
       THEN mainPc' = "exit" /\ exitCode' = 1
       ELSE mainPc' = "exchange" /\ exitCode' = exitCode
    /\ UNCHANGED <<pkce, environ, world, nfiles, auth_code_global, listener, callbacks,
                   access_token, batchVars>>

\* main line 259: "if not access_token" exits with 1.
TokenCheck_Skipped(token) == TRUE

TokenCheck(token) == Truthy(token)

\* exchange_code_for_token (93-115) and main lines 258-261.
ExchangeCode ==
    /\ mainPc = "exchange"
    /\ \E response \in TokenResponses :
          LET token == exchange_code_for_token(response) IN
          /\ access_token' = token
          /\ IF TokenCheck(token)
             THEN mainPc' = "submit" /\ exitCode' = exitCode
             ELSE mainPc' = "exit" /\ exitCode' = 1
    /\ broker' = [broker EXCEPT !.seen = "unset",
                                !.sent_code = broker.code,
                                !.sent_verifier = broker.code_verifier,
                                !.exchanges = @ + 1]
    /\ UNCHANGED <<pkce, environ, world, nfiles, auth_code_global, listener, callbacks,
                   batchVars>>

\* -------------------------------------------------------------- PKCE ------
\* A call generate_code_verifier(length) returns.
GenerateCodeVerifier ==
    /\ pkce.pc = "call"
    /\ \E code_verifier \in generate_code_verifier(pkce.length) :
          pkce' = [pkce EXCEPT !.pc = "verifier", !.code_verifier = code_verifier]
    /\ UNCHANGED <<environ, world, mainPc, exitCode, nfiles, auth_code_global,
                   listener, callbacks, broker, access_token, batchVars>>

\* A call generate_code_challenge(code_verifier) returns.
GenerateCodeChallenge ==
    /\ pkce.pc = "verifier"
    /\ Len(pkce.challenges) < MaxCalls
    /\ pkce' = [pkce EXCEPT
                  !.challenges = Append(@, generate_code_challenge(pkce.code_verifier))]
    /\ UNCHANGED <<environ, world, mainPc, exitCode, nfiles, auth_code_global,
                   listener, callbacks, broker, access_token, batchVars>>

\* ------------------------------------------------------- worker pool -----
\* main line 265: executor.submit, one file at a time in list order.
Submit ==
    /\ mainPc = "submit"
    /\ submitted < nfiles
    /\ submitted' = submitted + 1
    /\ fut' = [fut EXCEPT ![submitted + 1].pc = "queued"]
    /\ UNCHANGED <<environ, world, mainPc, exitCode, nfiles, authVars, waited, acQueue,
                   results, success, failures>>

\* All orders in which the members of S can be listed.
RECURSIVE Orders(_)
Orders(S) ==
    IF S = {}
    THEN {<<>>}
    ELSE UNION {{<<v>> \o q : q \in Orders(S \ {v})} : v \in S}

Finished == {v \in Videos : fut[v].pc = "done"}

\* main line 266: as_completed(future_to_file) is entered.  The futures
\* already finished are yielded first, in the iteration order of a set.
EnterAsCompleted ==
    /\ mainPc = "submit"
    /\ submitted = nfiles
    /\ mainPc' = "collect"
    /\ acQueue' \in Orders(Finished)
    /\ fut' = [v \in Videos |-> [fut[v] EXCEPT !.finished_first = FALSE]]
    /\ UNCHANGED <<environ, world, exitCode, nfiles, authVars, submitted, waited,
                   results, success, failures>>

\* The number of work items the pool runs at once.
PoolSize_PerFile == nfiles

PoolSize == max_workers

\* A pool thread takes the oldest queued work item; the pool has at most
\* max_workers threads, each running one item at a time.  The threads keep
\* taking items while main is inside the with block, also when it leaves the
\* block on an exception (shutdown(wait=True)).
WorkerTake(v) ==
    /\ mainPc \in {"submit", "collect", "raised"}
    /\ fut[v].pc = "queued"
    /\ \A u \in Videos : fut[u].pc = "queued" => v <= u
    /\ Cardinality(InProgress) < PoolSize
    /\ fut' = [fut EXCEPT ![v].pc = "caption"]
    /\ UNCHANGED <<environ, world, mainPc, exitCode, nfiles, authVars, submitted,
                   waited, acQueue, results, success, failures>>

\* The session of v ends: its future is finished, and as_completed, once
\* entered, lists it after the futures that finished before it.
\* A future that finishes now is the first of all to finish.
FinishesFirst == mainPc = "submit" /\ \A u \in Videos : fut[u].pc # "done"

Finish_NewestFirst(v, rec) ==
    /\ fut' = [fut EXCEPT ![v] = [rec EXCEPT !.pc = "done",
                                             !.finished_first = FinishesFirst]]
    /\ acQueue' = IF mainPc = "collect" THEN <<v>> \o acQueue ELSE acQueue

Finish(v, rec) ==
    /\ fut' = [fut EXCEPT ![v] = [rec EXCEPT !.pc = "done",
                                             !.finished_first = FinishesFirst]]
    /\ acQueue' = IF mainPc = "collect" THEN Append(acQueue, v) ELSE acQueue

Return(v, rec, value) == Finish(v, [rec EXCEPT !.result = value])

Raise(v, rec) == Finish(v, [rec EXCEPT !.raised = TRUE])

Step(v, rec, pc) ==
    /\ fut' = [fut EXCEPT ![v] = [rec EXCEPT !.pc = pc]]
    /\ acQueue' = acQueue

sessionFrame == <<environ, world, mainPc, exitCode, nfiles, authVars, submitted,
                  results, success, failures>>

\* ---------------------------------------------------- publish session ----
\* direct_post_video lines 208-215: the caption file must exist.
ReadCaption_NoReturn(v) ==
    /\ fut[v].pc = "caption"
    /\ \E exists \in world.captions :
          Step(v, [fut[v] EXCEPT !.caption = IF exists THEN "found" ELSE "missing"],
               "init")
    /\ UNCHANGED <<sessionFrame, waited>>

ReadCaption(v) ==
    /\ fut[v].pc = "caption"
    /\ \E exists \in world.captions :
          IF ~exists
          THEN Return(v, [fut[v] EXCEPT !.caption = "missing"], None_)
          ELSE Step(v, [fut[v] EXCEPT !.caption = "found"], "init")
    /\ UNCHANGED <<sessionFrame, waited>>

\* Line 216, initialize_video_post, and lines 217-219.
InitializeVideoPost(v) ==
    /\ fut[v].pc = "init"
    /\ \E response \in world.init :
          LET init_result == initialize_video_post(response)
              rec == [fut[v] EXCEPT !.init = response, !.inits = @ + 1]
          IN  IF InitStops(init_result)
              THEN Return(v, rec, RATE_LIMIT)
              ELSE Step(v, [rec EXCEPT !.publish_id = init_result[1],
                                       !.upload_url = init_result[2]], "transfer")
    /\ UNCHANGED <<sessionFrame, waited>>

\* Line 220, upload_video_file.  requests.put refuses a URL without a scheme
\* (MissingSchema) before anything is sent; upload_url None is such a URL.
UploadVideoFile_RetryOnce(v) ==
    /\ fut[v].pc = "transfer"
    /\ IF ~StartsWithHttp(fut[v].upload_url)
       THEN Raise(v, fut[v])
       ELSE \E status_code \in world.transfer :
               LET rec == [fut[v] EXCEPT !.puts = @ + 1, !.put_status = status_code]
               IN  IF TransferOk(status_code)
                   THEN Step(v, rec, "poll")
                   ELSE IF rec.puts < 2
                        THEN Step(v, rec, "transfer")
                        ELSE Return(v, rec, None_)
    /\ UNCHANGED <<sessionFrame, waited>>

UploadVideoFile(v) ==
    /\ fut[v].pc = "transfer"
    /\ IF ~StartsWithHttp(fut[v].upload_url)
       THEN Raise(v, fut[v])
       ELSE \E status_code \in world.transfer :
               LET rec == [fut[v] EXCEPT !.puts = @ + 1, !.put_status = status_code]
               IN  IF TransferOk(status_code)
                   THEN Step(v, rec, "poll")
                   ELSE Return(v, rec, None_)
    /\ UNCHANGED <<sessionFrame, waited>>

\* direct_post_video lines 223-225: the final status is printed and the
\* publish id returned.
SessionResult(publish_id, final_status) == publish_id

\* One turn of poll_video_status's loop, from the response on (lines 193-203):
\* return a status, or go on to the sleep.
PollTurn_OnlyPublished(response) ==
    IF response.status_code = 200
    THEN IF response.status = "PUBLISH_COMPLETE"
         THEN <<"return", response.status>>
         ELSE <<"sleep", None_>>
    ELSE IF response.status_code = 404
         THEN <<"return", COMPLETED>>
         ELSE <<"sleep", None_>>

PollTurn_404Continues(response) ==
    IF response.status_code = 200
    THEN IF response.status # PROCESSING_UPLOAD
         THEN <<"return", response.status>>
         ELSE <<"sleep", None_>>
    ELSE <<"sleep", None_>>

PollTurn_ErrorReturns(response) ==
    IF response.status_code = 200
    THEN IF response.status # PROCESSING_UPLOAD
         THEN <<"return", response.status>>
         ELSE <<"sleep", None_>>
    ELSE IF response.status_code = 404
         THEN <<"return", COMPLETED>>
         ELSE <<"return", None_>>

PollTurn(response) ==
    IF response.status_code = 200
    THEN IF response.status # PROCESSING_UPLOAD
         THEN <<"return", response.status>>
         ELSE <<"sleep", None_>>
    ELSE IF response.status_code = 404
         THEN <<"return", COMPLETED>>
         ELSE <<"sleep", None_>>

\* The answers after which poll_video_status returns.
PollEnds(response) == PollTurn(response)[1] = "return"

\* One turn of poll_video_status's loop: the query and what follows from its
\* response; a returned status ends direct_post_video too (lines 223-225).
PollVideoStatus(v) ==
    /\ fut[v].pc = "poll"
    /\ \E response \in world.poll :
          /\ ~PollEnds(response) => waited < world.waits
          /\ waited' = IF PollEnds(response) THEN waited ELSE waited + 1
          /\ LET rec == [fut[v] EXCEPT !.polls = Append(@, response)]
                 turn == PollTurn(response)
             IN  IF turn[1] = "return"
                 THEN Return(v, [rec EXCEPT !.final_status = turn[2]],
                             SessionResult(rec.publish_id, turn[2]))
                 ELSE Step(v, rec, "sleep")
    /\ UNCHANGED sessionFrame

\* Line 204: time.sleep(5), then the loop queries again.
Sleep(v) ==
    /\ fut[v].pc = "sleep"
    /\ Step(v, [fut[v] EXCEPT !.sleeps = @ + 1], "poll")
    /\ UNCHANGED <<sessionFrame, waited>>

\* ------------------------------------------------- collection, summary ---
\* A future as_completed has yielded: main holds its result, and nothing is
\* kept of the session that produced it.
Yielded(rec) == [NewSession EXCEPT !.pc = "yielded", !.result = rec.result]

\* main lines 266-268: the next finished future is yielded; future.result()
\* returns the session's value or raises the exception the session raised.
Collect ==
    /\ mainPc = "collect"
    /\ acQueue # <<>>
    /\ LET v == Head(acQueue) IN
          IF fut[v].raised
          THEN /\ mainPc' = "raised"
               /\ acQueue' = <<>>
               /\ results' = results
               /\ fut' = fut
          ELSE /\ mainPc' = mainPc
               /\ acQueue' = Tail(acQueue)
               /\ results' = Append(results, <<v, fut[v].result>>)
               /\ fut' = [fut EXCEPT ![v] = Yielded(fut[v])]
    /\ UNCHANGED <<environ, world, exitCode, nfiles, authVars, submitted, waited,
                   success, failures>>

\* main line 270.
SuccessList(res) == SelectSeq(res, LAMBDA r : IsSuccess(r[2]))

\* main line 271.
FailureList(res) == SelectSeq(res, LAMBDA r : IsFailure(r[2]))

\* main lines 270-284, once as_completed has yielded every future.
Summary ==
    /\ mainPc = "collect"
    /\ Len(results) = nfiles
    /\ success' = SuccessList(results)
    /\ failures' = FailureList(results)
    /\ mainPc' = "done"
    /\ exitCode' = 0
    /\ UNCHANGED <<environ, world, nfiles, authVars, submitted, fut, waited, acQueue,
                   results>>

\* An exception raised by future.result() leaves the with block, whose exit
\* waits for every work item, and then ends main: a traceback, exit code 1,
\* no summary.
Crash ==
    /\ mainPc = "raised"
    /\ \A v \in Videos : fut[v].pc \in {"done", "yielded"}
    /\ mainPc' = "crashed"
    /\ exitCode' = 1
    /\ UNCHANGED <<environ, world, nfiles, authVars, batchVars>>

\* ------------------------------------------------------ specifications ---
\* A batch none of whose sessions raises: main from its first submit on, the
\* pool and the sessions.
NextPool ==
    \/ Submit
    \/ EnterAsCompleted
    \/ \E v \in Videos : WorkerTake(v)
    \/ \E v \in Videos : ReadCaption(v)
    \/ \E v \in Videos : InitializeVideoPost(v)
    \/ \E v \in Videos : UploadVideoFile(v)
    \/ \E v \in Videos : PollVideoStatus(v)
    \/ \E v \in Videos : Sleep(v)
    \/ Collect
    \/ Summary

\* The batch.
NextBatch ==
    \/ NextPool
    \/ Crash

\* The whole program.
Next ==
    \/ LoadModule
    \/ ParseArgs
    \/ Callback
    \/ StartListener
    \/ OpenBrowser
    \/ WaitForCode
    \/ ReturnCode
    \/ ExchangeCode
    \/ NextBatch

Spec == Init /\ [][Next]_vars

\* The state of main at line 263 of a run given n files: the token has been
\* obtained with the first code the listener captured.
Authenticated(n) ==
    /\ environ = AllSet
    /\ mainPc = "submit"
    /\ exitCode = -1
    /\ nfiles = n
    /\ auth_code_global = "c1"
    /\ listener = TRUE
    /\ callbacks = 1
    /\ broker = [code_verifier |-> "v1",
                 url_challenge |-> generate_code_challenge("v1"),
                 seen |-> "unset", code |-> "c1", sent_code |-> "c1",
                 sent_verifier |-> "v1",
                 exchanges |-> 1]
    /\ pkce = NoPkce
    /\ access_token = "tok"
    /\ submitted = 0
    /\ fut = [v \in 1..n |-> NewSession]
    /\ waited = 0
    /\ acQueue = <<>>
    /\ results = <<>>
    /\ success = <<>>
    /\ failures = <<>>

\* One publish session, against everything the provider can answer.
InitSession == world = AnyWorld /\ Authenticated(1)

SpecSession == InitSession /\ [][NextBatch]_vars

\* A provider with one answer of each kind.
BatchWorld ==
    [captions |-> BOOLEAN,
     init |-> { InitResp(200, None_, "p1", UrlWithScheme),
                InitResp(200, RATE_CODE, None_, None_),
                InitResp(500, None_, None_, None_) },
     transfer |-> {200, 500},
     poll |-> { PollResp(200, PROCESSING_UPLOAD), PollResp(200, "PUBLISH_COMPLETE"),
                PollResp(200, "FAILED") },
     waits |-> MaxWaits]

\* A batch of up to BatchVideos files.
InitBatch == world = BatchWorld /\ \E n \in 1..BatchVideos : Authenticated(n)

SpecBatch == InitBatch /\ [][NextBatch]_vars

\* A provider that accepts every video, and captions that all exist.
PoolWorld ==
    [captions |-> {TRUE},
     init |-> { InitResp(200, None_, "p1", UrlWithScheme) },
     transfer |-> {200},
     poll |-> { PollResp(200, PROCESSING_UPLOAD), PollResp(404, None_) },
     waits |-> PoolWaits]

\* The steps of the main thread, and those of the pool thread that runs the
\* session of v.
MainThread == Submit \/ EnterAsCompleted \/ Collect \/ Summary \/ Crash

SessionThread(v) ==
    /\ v \in Videos
    /\ \/ WorkerTake(v)
       \/ ReadCaption(v)
       \/ InitializeVideoPost(v)
       \/ UploadVideoFile(v)
       \/ PollVideoStatus(v)
       \/ Sleep(v)

\* The same batch when every thread that can take a step eventually takes
\* one: the threads are operating-system threads, and time.sleep returns.
SpecBatchFair ==
    /\ InitBatch
    /\ [][NextBatch]_vars
    /\ WF_vars(MainThread)
    /\ \A v \in 1..BatchVideos : WF_vars(SessionThread(v))

\* A batch of more files than the pool has threads.
InitPool == world = PoolWorld /\ Authenticated(PoolVideos)

SpecPool == InitPool /\ [][NextPool]_vars

\* A provider whose init answers carry every kind of publish id: an ordinary
\* one, the empty string, the string "RATE_LIMIT", and none with the rate code.
SummaryWorld ==
    [captions |-> BOOLEAN,
     init |-> { InitResp(200, None_, "p1", UrlWithScheme),
                InitResp(200, None_, "", UrlWithScheme),
                InitResp(200, None_, RATE_LIMIT, UrlWithScheme),
                InitResp(200, RATE_CODE, None_, None_) },
     transfer |-> {200, 500},
     poll |-> { PollResp(200, PROCESSING_UPLOAD), PollResp(200, "PUBLISH_COMPLETE"),
                PollResp(404, None_) },
     waits |-> MaxWaits]

\* A batch of up to BatchVideos files against that provider.
InitSummary == world = SummaryWorld /\ \E n \in 1..BatchVideos : Authenticated(n)

SpecSummary == InitSummary /\ [][NextBatch]_vars

\* The whole program, started with any of the three environment names set or
\* missing.
InitConfig ==
    /\ environ \in [{"OPENAI_API_KEY", "TIKTOK_CLIENT_ID", "TIKTOK_CLIENT_SECRET"} -> BOOLEAN]
    /\ world = BatchWorld
    /\ mainPc = "import"
    /\ exitCode = -1
    /\ nfiles = 0
    /\ auth_code_global = None_
    /\ listener = FALSE
    /\ callbacks = 0
    /\ broker = NoBroker
    /\ pkce = NoPkce
    /\ access_token = None_
    /\ submitted = 0
    /\ fut = <<>>
    /\ waited = 0
    /\ acQueue = <<>>
    /\ results = <<>>
    /\ success = <<>>
    /\ failures = <<>>

SpecConfig == InitConfig /\ [][Next]_vars

\* The PKCE utility functions, called with every length up to MaxLen.
InitPkce ==
    /\ environ = AllSet
    /\ world = AnyWorld
    /\ mainPc = "import"
    /\ exitCode = -1
    /\ nfiles = 0
    /\ auth_code_global = None_
    /\ listener = FALSE
    /\ callbacks = 0
    /\ broker = NoBroker
    /\ \E length \in 0..MaxLen : pkce = [NoPkce EXCEPT !.pc = "call", !.length = length]
    /\ access_token = None_
    /\ submitted = 0
    /\ fut = <<>>
    /\ waited = 0
    /\ acQueue = <<>>
    /\ results = <<>>
    /\ success = <<>>
    /\ failures = <<>>

NextPkce == GenerateCodeVerifier \/ GenerateCodeChallenge

SpecPkce == InitPkce /\ [][NextPkce]_vars

\* ---------------------------------------------------------- properties ---
Last(q) == q[Len(q)]

\* The sessions whose init response has arrived.
PastInit == {v \in Videos : fut[v].inits > 0}

\* The sessions whose future is finished and not yet yielded to main.
Done == {v \in Videos : fut[v].pc = "done"}

\* A session issued neither a transfer request nor a status query.
NoTransferNoPoll(v) == fut[v].puts = 0 /\ fut[v].polls = <<>>

\* A session ended in Failed: it returned None.
EndedFailed(v) == fut[v].pc = "done" /\ ~fut[v].raised /\ fut[v].result = None_

\* C1: a batch of N videos ends with exactly N outcomes, one per video, whatever
\* per-job errors occur: no session's error is raised into main, and every
\* finished session is represented by an outcome value.
C1_EveryJobYieldsAnOutcome ==
    /\ mainPc \notin {"raised", "crashed"}
    /\ \A v \in Done : ~fut[v].raised
    /\ mainPc = "done" =>
          /\ Len(results) = nfiles
          /\ \A v \in Videos : \E i \in 1..Len(results) : results[i][1] = v

\* An init response that is neither a rate-limit error nor carries both a
\* publish identifier and an upload URL; any non-200 response is one.
BadInitResponse(r) ==
    /\ r.error_code # RATE_CODE
    /\ r.status_code # 200 \/ ~(Truthy(r.publish_id) /\ Truthy(r.upload_url))

\* C2: a session whose init response is a bad init response ends in Failed, is
\* not reported as rate-limited, and issues no transfer request and no status
\* query.
C2_BadInitEndsFailed ==
    \A v \in PastInit :
        BadInitResponse(fut[v].init) =>
            /\ NoTransferNoPoll(v)
            /\ fut[v].pc = "done" => EndedFailed(v)

\* A session ended in RateLimited without a transfer request or a status query.
EndedRateLimited(v) ==
    /\ fut[v].pc = "done"
    /\ ~fut[v].raised
    /\ fut[v].result = RATE_LIMIT
    /\ NoTransferNoPoll(v)

C4_MissingCaptionNoNetwork ==
    \A v \in Videos :
        fut[v].caption = "missing" =>
            EndedFailed(v) /\ fut[v].inits = 0 /\ NoTransferNoPoll(v)

C4_Witness == \E v \in Done : fut[v].caption = "missing" /\ fut[v].result = None_

\* A 200 answer with the status "processing".
IsProcessing(r) == r.status_code = 200 /\ r.status = PROCESSING_UPLOAD

\* C5: when the status answers of a session are k times "processing" and then a
\* 200 answer with another status s, the session has made exactly k sleeps,
\* polling is over (the k+1 answers are all it asked for) and the status
\* poll_video_status returned is s.
C5_ProcessingThenStatus ==
    \A v \in Videos :
        LET p == fut[v].polls IN
        (/\ p # <<>>
         /\ \A i \in 1..(Len(p) - 1) : IsProcessing(p[i])
         /\ Last(p).status_code = 200
         /\ ~IsProcessing(Last(p)))
        => /\ fut[v].pc = "done"
           /\ fut[v].sleeps = Len(p) - 1
           /\ fut[v].final_status = Last(p).status

\* C5's case: processing, processing, published, after exactly two sleeps.
C5_Witness ==
    \E v \in Done :
        /\ fut[v].polls = <<PollResp(200, PROCESSING_UPLOAD),
                            PollResp(200, PROCESSING_UPLOAD),
                            PollResp(200, "PUBLISH_COMPLETE")>>
        /\ fut[v].sleeps = 2
        /\ fut[v].final_status = "PUBLISH_COMPLETE"

\* C6: a status answer 404 ends the session at once, as Completed: it is the
\* last answer the session asks for, no sleep follows it, and the session's
\* outcome is a success.
C6_NotFoundCompletes ==
    \A v \in Videos :
        LET p == fut[v].polls IN
        \A i \in 1..Len(p) :
            p[i].status_code = 404 =>
                /\ i = Len(p)
                /\ fut[v].pc = "done"
                /\ fut[v].sleeps = Len(p) - 1
                /\ fut[v].final_status = COMPLETED
                /\ IsSuccess(fut[v].result)

\* C6's case: a 404 after a transient error and a "processing" answer.
C6_Witness ==
    \E v \in Done :
        /\ Len(fut[v].polls) = 3
        /\ fut[v].polls[1].status_code = 500
        /\ IsProcessing(fut[v].polls[2])
        /\ fut[v].polls[3].status_code = 404

\* C7: a session is counted as a success only when its polling ended in a
\* completed or published status; one whose polling ended with a failed status
\* reported by the provider is counted among the failures.
C7_OutcomeFollowsFinalStatus ==
    \A v \in Done :
        /\ IsSuccess(fut[v].result) =>
              fut[v].final_status \in {COMPLETED, "PUBLISH_COMPLETE"}
        /\ fut[v].final_status = "FAILED" => IsFailure(fut[v].result)

\* C8: the summary counts a rate-limited session as rate-limited and not as a
\* hard failure: for two videos of which one is rate-limited at init and the
\* other completes, it shows one success and no hard failure.
C8_RateLimitedIsNoFailure ==
    mainPc = "done" =>
        /\ \A i \in 1..Len(failures) : failures[i][2] # RATE_LIMIT
        /\ (/\ nfiles = 2
            /\ \E i \in 1..2 : results[i] = <<1, RATE_LIMIT>>
            /\ \E i \in 1..2 : results[i] = <<2, "p1">>)
           => Len(success) = 1 /\ Len(failures) = 0

\* C9: at most max_workers sessions are in progress at any moment, and a
\* session beyond the first max_workers is started only after an earlier one
\* has reached its outcome.
C9_AtMostFourInProgress ==
    /\ Cardinality(InProgress) <= max_workers
    /\ \A v \in Videos :
          v > max_workers /\ fut[v].pc \notin {"new", "queued"} =>
              \E u \in 1..(v - 1) : fut[u].pc \in {"done", "yielded"}

\* C9's case: the fifth session runs beside three others, one having ended.
C9_Witness ==
    /\ nfiles > max_workers
    /\ fut[max_workers + 1].pc \in Running
    /\ Cardinality(InProgress) = max_workers

\* Authentication failed: the broker returned without a code, or the token
\* endpoint gave no access token.
AuthFailed ==
    \/ broker.code # "unset" /\ ~Truthy(broker.code)
    \/ broker.exchanges > 0 /\ ~Truthy(access_token)

\* No publish session has been submitted or started.
NoSession == submitted = 0 /\ \A v \in Videos : fut[v] = NewSession

\* C10: when authentication fails the run ends with exit code 1 and no publish
\* session is started; a session exists only in a run that holds an access
\* token.
C10_NoSessionWithoutToken ==
    /\ AuthFailed => mainPc = "exit" /\ exitCode = 1 /\ NoSession
    /\ ~NoSession => Truthy(access_token)

\* C10's case: the token endpoint refused the exchange for a run with a file.
C10_Witness ==
    /\ nfiles > 0
    /\ broker.exchanges = 1
    /\ ~Truthy(access_token)
    /\ exitCode = 1

\* C11: a session whose transfer request is answered with a status other than
\* 200 and 201 ends in Failed at once: it has issued that one transfer request
\* and no status query.
C11_FailedTransferStops ==
    \A v \in Videos :
        fut[v].puts > 0 /\ fut[v].put_status \notin {200, 201} =>
            /\ EndedFailed(v)
            /\ fut[v].puts = 1
            /\ fut[v].polls = <<>>
            /\ fut[v].sleeps = 0

\* C11's case: the transfer was answered with 500.
C11_Witness == \E v \in Done : fut[v].puts = 1 /\ fut[v].put_status = 500

\* The characters of [A-Za-z0-9-._~] among those of the model.
Unreserved == {"a", "Z", "7", "-", ".", "_", "~"}

C13_MissingClientConfigExits ==
    ~environ.TIKTOK_CLIENT_ID \/ ~environ.TIKTOK_CLIENT_SECRET =>
        /\ ~listener
        /\ broker.url_challenge = <<>>
        /\ broker.exchanges = 0
        /\ NoSession
        /\ access_token = None_

\* The stages of a session, in the order the code passes through them.
Rank(pc) ==
    CASE pc \in {"new", "queued", "caption"} -> 0
      [] pc = "init" -> 1
      [] pc = "transfer" -> 2
      [] pc \in {"poll", "sleep"} -> 3
      [] pc \in {"done", "yielded"} -> 4

\* Requests the session has sent to the provider.
Requests(rec) == rec.inits + rec.puts + Len(rec.polls)

ForwardOnly(v) ==
    /\ Rank(fut'[v].pc) >= Rank(fut[v].pc)
    /\ fut'[v].inits <= 1
    /\ fut'[v].puts <= 1
    /\ fut'[v].inits > fut[v].inits => Rank(fut[v].pc) = 1
    /\ fut'[v].puts > fut[v].puts =>
          /\ Rank(fut[v].pc) = 2
          /\ fut[v].inits = 1
          /\ fut[v].init.status_code = 200
          /\ Truthy(fut[v].publish_id) /\ Truthy(fut[v].upload_url)
    /\ Len(fut'[v].polls) > Len(fut[v].polls) =>
          /\ Rank(fut[v].pc) = 3
          /\ fut[v].puts = 1
          /\ fut[v].put_status \in {200, 201}
    /\ Rank(fut[v].pc) = 4 => Requests(fut'[v]) <= Requests(fut[v])

\* C14: a session's stage only moves forward, Init, Transferring, Polling,
\* terminal: every step leaves it at the same or a later stage; the init
\* request is sent at most once; the transfer request at most once and only
\* after a successful init; a status query only after a successful transfer;
\* no request once the session has ended.
C14_StagesOnlyForward == [][\A v \in Videos : ForwardOnly(v)]_vars

\* C14's case: a session that ended after init, transfer and two status queries.
C14_Witness ==
    \E v \in Done : fut[v].inits = 1 /\ fut[v].puts = 1 /\ Len(fut[v].polls) = 2

\* C15: a status query answered with an HTTP status other than 200 and 404
\* neither ends the session nor fails it: the session stays in the poll loop
\* with no result, sleeps one interval per such answer and then queries again,
\* however many such answers came in a row.
C15_PollErrorKeepsPolling ==
    \A v \in Videos :
        fut[v].polls # <<>> /\ Last(fut[v].polls).status_code \notin {200, 404} =>
            /\ fut[v].pc \in {"sleep", "poll"}
            /\ fut[v].result = "unset" /\ fut[v].final_status = "unset"
            /\ ~fut[v].raised
            /\ fut[v].pc = "sleep" =>
                  fut[v].sleeps = Len(fut[v].polls) - 1 /\ ENABLED Sleep(v)
            /\ fut[v].pc = "poll" =>
                  fut[v].sleeps = Len(fut[v].polls) /\ ENABLED PollVideoStatus(v)

\* C15's case: two answers of status 500 in a row, and the query after them.
C15_Witness ==
    \E v \in Videos :
        /\ Len(fut[v].polls) = 3
        /\ fut[v].polls[1].status_code = 500
        /\ fut[v].polls[2].status_code = 500
        /\ fut[v].sleeps = 2

\* C16: when every thread keeps being scheduled and the provider eventually
\* gives every status query a final answer, every session of the batch ends
\* and main finalizes a batch result that holds the outcome of each of the
\* nfiles videos.
C16_BatchEventuallyFinalized ==
    <>(/\ mainPc = "done"
       /\ Len(results) = nfiles
       /\ \A v \in Videos : fut[v].pc = "yielded")

\* A step of main that appends an outcome to results.
Appends == Len(results') = Len(results) + 1

\* The step in which main enters as_completed.
Enters == mainPc = "submit" /\ mainPc' = "collect"

\* A step in which the session of v finishes.
Finishes(v) == fut[v].pc \in Running /\ fut'[v].pc = "done"

\* From as_completed's entry on main takes the finished futures first in,
\* first out: an outcome appended is that of the future listed first, paired
\* with its video, and a future that finishes is listed last.
FirstInFirstOut ==
    /\ Appends =>
          /\ acQueue # <<>>
          /\ fut[Head(acQueue)].pc = "done"
          /\ Last(results') = <<Head(acQueue), fut[Head(acQueue)].result>>
          /\ acQueue' = Tail(acQueue)
    /\ \A v \in Videos :
          Finishes(v) /\ mainPc = "collect" => acQueue' = Append(acQueue, v)
    /\ acQueue' # acQueue /\ mainPc' = "collect" /\ ~Enters =>
          Appends \/ \E v \in Videos : Finishes(v)

\* C17 as stated: outcomes are appended in the order in which the sessions
\* finish: of the futures that had finished when as_completed was entered it
\* lists first the one that finished first, and main takes the futures listed
\* first in, first out.
C17_AppendedInFinishOrder ==
    [][/\ Enters =>
            \A i \in 1..Len(acQueue') : fut[acQueue'[i]].finished_first => i = 1
       /\ FirstInFirstOut]_vars

\* C17: outcomes are appended in the order as_completed yields the sessions,
\* not in submission order: those that had finished when as_completed was
\* entered, each exactly once, then the others in the order in which they
\* finish; main can collect whenever a finished session is uncollected,
\* whatever the earlier-submitted sessions are doing; each outcome appended
\* is the pair of a finished video and the result of that video's session.
C17_AppendedAsYielded ==
    /\ [](mainPc = "collect" /\ Finished # {} => ENABLED Collect)
    /\ [][/\ Enters =>
               /\ {acQueue'[i] : i \in 1..Len(acQueue')} = Finished
               /\ Len(acQueue') = Cardinality(Finished)
          /\ FirstInFirstOut]_vars

\* C17's case: the outcome of the second video has been appended while the
\* session of the first, submitted before it, is still running.
C17_Witness ==
    /\ nfiles = 2
    /\ Len(results) = 1 /\ results[1][1] = 2
    /\ fut[1].pc \in Running

\* C18: the captured-code slot is written once in an authentication attempt:
\* once a callback has stored a code in it no later step changes its value;
\* and at most one code is exchanged for a token in a run.
C18_SlotWrittenOnce ==
    /\ [](broker.exchanges <= 1)
    /\ [][Truthy(auth_code_global) => auth_code_global' = auth_code_global]_vars

\* What the broker has done, in the order of its steps.
BrokerInOrder ==
    /\ broker.exchanges <= 1
    /\ broker.code_verifier # None_ => listener
    /\ broker.url_challenge # <<>> =>
          /\ broker.code_verifier # None_
          /\ broker.url_challenge = <<"sha256hex", broker.code_verifier>>
    /\ broker.seen # "unset" => broker.url_challenge # <<>> /\ callbacks >= 1
    /\ broker.code # "unset" /\ broker.exchanges = 0 => broker.seen # "unset"
    /\ broker.exchanges = 1 =>
          /\ Truthy(broker.code)
          /\ broker.sent_code = broker.code
          /\ broker.sent_verifier = broker.code_verifier
          /\ broker.url_challenge = <<"sha256hex", broker.sent_verifier>>

\* C19: the broker's steps come in this order: the slot is cleared and the
\* listener started; the authorization URL is opened, carrying the SHA-256
\* challenge of the verifier and not the verifier; the broker takes from the
\* slot a code the listener stored there; one token exchange is made, which
\* sends that code and the verifier the challenge was derived from.
C19_BrokerStepsInOrder ==
    /\ []BrokerInOrder
    /\ [][/\ ~listener /\ listener' =>
               auth_code_global' = None_ /\ broker'.url_challenge = <<>>
          /\ broker'.code # broker.code =>
               broker'.code = auth_code_global /\ callbacks >= 1]_vars

\* C19's case: the exchange has been made.
C19_Witness ==
    /\ broker.exchanges = 1
    /\ broker.sent_code = "c2"
    /\ broker.sent_verifier = "v1"

\* C20: once the wait loop has seen a code in the slot, the code that
\* get_auth_code_default returns is not empty, whatever further callback
\* requests arrive.
C20_ReturnedCodeNotEmpty ==
    broker.code # "unset" /\ Truthy(broker.seen) => Truthy(broker.code)

\* The video v has an entry in the list.
Listed(list, v) == \E i \in 1..Len(list) : list[i][1] = v

\* C21: when a batch has run to the summary, every collected outcome is in
\* exactly one of the success list and the failure list, and successes plus
\* failures = number of results = number of input videos, whatever the
\* sessions returned.
C21_ListsPartitionResults ==
    mainPc = "done" =>
        /\ Len(results) = nfiles
        /\ Len(success) + Len(failures) = Len(results)
        /\ \A i \in 1..Len(results) :
              Listed(success, results[i][1]) # Listed(failures, results[i][1])
        /\ \A v \in Videos : \E i \in 1..Len(results) : results[i][1] = v

\* C21's case: a summary over one published video and one whose init answer
\* carried the publish id "RATE_LIMIT".
C21_Witness ==
    /\ mainPc = "done"
    /\ nfiles = 2
    /\ \E i \in 1..2 : results[i][2] = "p1"
    /\ \E i \in 1..2 :
          /\ results[i][2] = RATE_LIMIT
          /\ Listed(failures, results[i][1])
    /\ Len(success) = 1

====
